---------------------------- MODULE Spec2Model ----------------------------
(***************************************************************************)
(* globus_sdk: the layered configuration store (config.py) and the         *)
(* response wrappers (response.py).                                        *)
(*                                                                         *)
(* Spec         one caller using the configuration helpers sequentially    *)
(* SpecThreads  several threads inside the singleton accessor _get_parser  *)
(* SpecResponse a GlobusResponse / GlobusHTTPResponse and its accessors    *)
(***************************************************************************)
EXTENDS Integers, Sequences, FiniteSets, TLC

VARIABLES
    fs,        \* the three configuration sources on disk: path index -> file
    environ,   \* os.environ restricted to the GLOBUS_SDK_ variables
    heap,      \* the GlobusConfigParser objects constructed so far
    parser,    \* the module global _parser: 0 is None, else an index of heap
    call,      \* the library call whose result the caller holds, if any
    pc,        \* per thread: position inside _get_parser
    tmp,       \* per thread: the object built by GlobusConfigParser()
    ret,       \* per thread: what _get_parser returned (0: nothing yet)
    transport, \* the HTTP library's response object (mutable, not ours)
    wrapper,   \* the response wrapper the caller holds
    access     \* the wrapper access that completed last, with its outcome

cfgVars  == <<fs, environ, heap, parser, call>>
thrVars  == <<pc, tmp, ret>>
respVars == <<transport, wrapper, access>>
vars     == <<fs, environ, heap, parser, call, pc, tmp, ret,
              transport, wrapper, access>>

---------------------------------------------------------------------------
(* Bounds *)

\* total number of lines held by the three source files together
MaxTotalLines == 3
\* number of threads that may be inside _get_parser
NThreads == 2

---------------------------------------------------------------------------
(* Python values handed back to callers: a str, None, or a raised error *)

Str(s)    == [kind |-> "return", t |-> "str",  v |-> s]
None      == [kind |-> "return", t |-> "none", v |-> ""]
Raise(e)  == [kind |-> "raise",  t |-> "exc",  v |-> e]

\* config.py:36
GENERAL_CONF_SECTION == "general"

\* str.upper() on the option names (config.py:95)
Upper(s) ==
    CASE s = "auth_token"    -> "AUTH_TOKEN"
      [] s = "Auth_Token"    -> "AUTH_TOKEN"
      [] s = "nexus_service" -> "NEXUS_SERVICE"

\* RawConfigParser.optionxform: str.lower(), applied to keys on read and get
OptionXForm(s) ==
    CASE s = "auth_token"    -> "auth_token"
      [] s = "Auth_Token"    -> "auth_token"
      [] s = "nexus_service" -> "nexus_service"

\* 'GLOBUS_SDK_{}'.format(option.upper()) (config.py:95)
EnvOptionName(option) ==
    CASE Upper(option) = "AUTH_TOKEN"    -> "GLOBUS_SDK_AUTH_TOKEN"
      [] Upper(option) = "NEXUS_SERVICE" -> "GLOBUS_SDK_NEXUS_SERVICE"

Environments == {"prod"}

\* 'environment ' + environment (config.py:85)
EnvironmentSection(environment) ==
    CASE environment = "prod" -> "environment prod"

\* service + "_service" (config.py:122)
ServiceOption(service) ==
    CASE service = "nexus" -> "nexus_service"

---------------------------------------------------------------------------
(* Source files *)

Header(name)     == [k |-> "header", name |-> name, value |-> ""]
Option(name, v)  == [k |-> "option", name |-> name, value |-> v]
BadLine          == [k |-> "bad",    name |-> "",   value |-> ""]

\* the lines a source file may hold: a section header, two spellings of one
\* key with different values, and a line that matches neither pattern.
\* The values hold no % sign, so SafeConfigParser's interpolation returns
\* them as they are.
Lines == { Header("environment prod"),
           Option("auth_token", "A"),
           Option("Auth_Token", "B"),
           BadLine }

\* open(fname) raises IOError for a file that is missing or unreadable
NoFile       == [readable |-> FALSE, lines |-> <<>>]
File(lines)  == [readable |-> TRUE,  lines |-> lines]

\* _load_config's list: packaged default, /etc/globus.cfg, ~/.globus.cfg
\* (config.py:44-45)
ConfigPaths == <<"globus_sdk/globus.cfg", "/etc/globus.cfg", "~/.globus.cfg">>
Sources     == 1..Len(ConfigPaths)

\* the files of exactly n lines; an empty source may also be missing
FilesOfLen(n) ==
    IF n = 0 THEN {NoFile, File(<<>>)}
    ELSE { File(l) : l \in [1..n -> Lines] }

LineCounts ==
    { c \in [Sources -> 0..MaxTotalLines] : c[1] + c[2] + c[3] <= MaxTotalLines }

FileSystems ==
    UNION { { <<a, b, c>> : a \in FilesOfLen(n[1]),
                            b \in FilesOfLen(n[2]),
                            c \in FilesOfLen(n[3]) } : n \in LineCounts }

\* the process environment: GLOBUS_SDK_AUTH_TOKEN unset, or set
Environs == { <<>>, ("GLOBUS_SDK_AUTH_TOKEN" :> "E") }

---------------------------------------------------------------------------
(* SafeConfigParser (Python 2 ConfigParser), as config.py uses it *)

\* _read: a header opens the section, creating it when it is new
AddSection(sections, name) ==
    IF name \in DOMAIN sections THEN sections
    ELSE (name :> <<>>) @@ sections

\* _read: cursect[optname] = optval, replacing an earlier value of the key
SetOption(sections, sect, key, value) ==
    [sections EXCEPT ![sect] = (key :> value) @@ @]

\* readfp: lines are merged into the sections in order; a line that is
\* neither a header nor an option is collected and reported as ParsingError
\* once the whole file has been read
RECURSIVE ReadFp(_, _, _, _)
ReadFp(sections, cursect, lines, err) ==
    IF lines = <<>> THEN [sections |-> sections, error |-> err]
    ELSE LET line == Head(lines) IN
         CASE line.k = "header" ->
                ReadFp(AddSection(sections, line.name), line.name,
                       Tail(lines), err)
           [] line.k = "option" ->
                ReadFp(SetOption(sections, cursect, OptionXForm(line.name),
                                 line.value),
                       cursect, Tail(lines), err)
           [] line.k = "bad" ->
                ReadFp(sections, cursect, Tail(lines), TRUE)

\* SafeConfigParser.get(section, option)
ParserGet(sections, section, option) ==
    IF section \notin DOMAIN sections THEN Raise("NoSectionError")
    ELSE LET key == OptionXForm(option) IN
         IF key \in DOMAIN sections[section]
         THEN Str(sections[section][key])
         ELSE Raise("NoOptionError")

---------------------------------------------------------------------------
(* GlobusConfigParser *)

\* '[general]\n' + f.read() (config.py:61-62)
Wrapped(file) == <<Header(GENERAL_CONF_SECTION)>> \o file.lines

ReadFile_IOErrorEscapes(file, sections) ==
    IF ~file.readable THEN [sections |-> sections, raised |-> "IOError"]
    ELSE LET r == ReadFp(sections, "", Wrapped(file), FALSE) IN
         [sections |-> r.sections,
          raised   |-> IF r.error THEN "ParsingError" ELSE ""]

\* the body of _read's loop for one file name (config.py:57-65)
ReadFile(file, sections) ==
    IF ~file.readable THEN [sections |-> sections, raised |-> ""]
    ELSE LET r == ReadFp(sections, "", Wrapped(file), FALSE) IN
         [sections |-> r.sections,
          raised   |-> IF r.error THEN "ParsingError" ELSE ""]

\* _read(filenames) (config.py:47-65): an error other than IOError leaves
\* the loop and the constructor
RECURSIVE Read(_, _, _)
Read(f, sections, i) ==
    IF i > Len(ConfigPaths) THEN [sections |-> sections, raised |-> ""]
    ELSE LET r == ReadFile(f[i], sections) IN
         IF r.raised # "" THEN r
         ELSE Read(f, r.sections, i + 1)

NewParser_UserFileFirst(f) == Read(<<f[3], f[2], f[1]>>, <<>>, 1)

\* GlobusConfigParser() (config.py:38-45): the sources are read in the
\* order of ConfigPaths, lowest priority first
NewParser(f) == Read(f, <<>>, 1)

\* the argument None
Nil == "<None>"

Truthy(x) == x # Nil /\ x # ""

\* config.py:84-89
Scope(section, environment) ==
    LET s == IF Truthy(environment) THEN EnvironmentSection(environment)
             ELSE section
    IN IF s = Nil THEN GENERAL_CONF_SECTION ELSE s

EnvConsulted_Always(check_env) == TRUE

\* config.py:96: os.environ is looked at only under check_env
EnvConsulted(check_env) == check_env

\* GlobusConfigParser.get (config.py:67-104); frames lists the activations
\* of get that the call made, outermost first
RECURSIVE Get(_, _, _, _, _, _, _)
Get(sections, env, option, section, environment, failover_to_general, check_env) ==
    LET scope == Scope(section, environment)
        env_option_name == EnvOptionName(option)
        frame == [section   |-> scope,
                  failover  |-> failover_to_general,
                  check_env |-> check_env,
                  env_read  |-> EnvConsulted(check_env)]
    IN IF EnvConsulted(check_env) /\ env_option_name \in DOMAIN env
       THEN [out |-> Str(env[env_option_name]), frames |-> <<frame>>]
       ELSE LET r == ParserGet(sections, scope, option) IN
            IF r = Raise("NoOptionError")
            THEN IF failover_to_general
                 THEN LET g == Get(sections, env, option,
                                   GENERAL_CONF_SECTION, Nil, FALSE, FALSE)
                      IN [out |-> g.out, frames |-> <<frame>> \o g.frames]
                 ELSE [out |-> None, frames |-> <<frame>>]
            ELSE [out |-> r, frames |-> <<frame>>]

---------------------------------------------------------------------------
(* The configuration helpers, called one after another by one thread *)

NoCall == [op |-> "", option |-> "", section |-> "", environment |-> "",
           failover |-> FALSE, check_env |-> FALSE,
           out |-> None, frames |-> <<>>]

\* _get_parser() run to completion (config.py:107-115)
_get_parser ==
    IF parser # 0 THEN [heap |-> heap, parser |-> parser, raised |-> ""]
    ELSE LET r == NewParser(fs) IN
         IF r.raised = ""
         THEN [heap   |-> Append(heap, [sections |-> r.sections]),
               parser |-> Len(heap) + 1,
               raised |-> ""]
         ELSE [heap |-> heap, parser |-> 0, raised |-> r.raised]

\* p.get(option, ...) on the outcome p of _get_parser(), called when the caller is not
\* inside another call
Invoke(p, op, option, section, environment, failover, check_env) ==
    LET args == [op |-> op, option |-> option, section |-> section,
                 environment |-> environment, failover |-> failover,
                 check_env |-> check_env]
    IN /\ call = NoCall
       /\ heap' = p.heap
       /\ parser' = p.parser
       /\ call' =
            IF p.raised # ""
            THEN args @@ [out |-> Raise(p.raised), frames |-> <<>>]
            ELSE LET r == Get(p.heap[p.parser].sections, environ, option,
                              section, environment, failover, check_env)
                 IN args @@ [out |-> r.out, frames |-> r.frames]
       /\ UNCHANGED <<fs, environ, thrVars, respVars>>

Services == {"nexus"}

\* get_service_url (config.py:120-124)
get_service_url ==
    LET p == _get_parser IN
    \E environment \in Environments, service \in Services :
        Invoke(p, "get_service_url", ServiceOption(service), Nil, environment,
               FALSE, FALSE)

\* get_auth_token (config.py:127-136)
get_auth_token ==
    LET p == _get_parser IN
    \E environment \in Environments :
        Invoke(p, "get_auth_token", "auth_token", Nil, environment, TRUE, TRUE)

GetOptions      == {"auth_token", "Auth_Token"}
GetSections     == {Nil, GENERAL_CONF_SECTION, "environment prod"}
GetEnvironments == {Nil} \cup Environments

\* GlobusConfigParser.get on the singleton, with any arguments
ConfigGet ==
    LET p == _get_parser IN
    \E option \in GetOptions, section \in GetSections,
       environment \in GetEnvironments,
       failover \in BOOLEAN, check_env \in BOOLEAN :
        Invoke(p, "get", option, section, environment, failover, check_env)

\* the caller is done with the result and goes on
Return ==
    /\ call # NoCall
    /\ call' = NoCall
    /\ UNCHANGED <<fs, environ, heap, parser, thrVars, respVars>>

---------------------------------------------------------------------------
(* _get_parser, statement by statement, run by several threads *)

Threads == 1..NThreads

ThreadsIdle ==
    /\ pc  = [t \in Threads |-> "idle"]
    /\ tmp = [t \in Threads |-> 0]
    /\ ret = [t \in Threads |-> 0]

\* a caller enters _get_parser
Enter(t) ==
    /\ pc[t] \in {"idle", "done", "raised"}
    /\ pc' = [pc EXCEPT ![t] = "test"]
    /\ UNCHANGED <<cfgVars, tmp, ret, respVars>>

\* if _parser is None: (config.py:113)
Test(t) ==
    /\ pc[t] = "test"
    /\ pc' = [pc EXCEPT ![t] = IF parser = 0 THEN "construct" ELSE "load"]
    /\ UNCHANGED <<cfgVars, tmp, ret, respVars>>

\* GlobusConfigParser() (config.py:114, right-hand side): reads the files
Construct(t) ==
    /\ pc[t] = "construct"
    /\ LET r == NewParser(fs) IN
       IF r.raised = ""
       THEN /\ heap' = Append(heap, [sections |-> r.sections])
            /\ tmp' = [tmp EXCEPT ![t] = Len(heap) + 1]
            /\ pc' = [pc EXCEPT ![t] = "store"]
       ELSE /\ pc' = [pc EXCEPT ![t] = "raised"]
            /\ UNCHANGED <<heap, tmp>>
    /\ UNCHANGED <<fs, environ, parser, call, ret, respVars>>

\* _parser = ... (config.py:114, the assignment)
Store(t) ==
    /\ pc[t] = "store"
    /\ parser' = tmp[t]
    /\ pc' = [pc EXCEPT ![t] = "load"]
    /\ UNCHANGED <<fs, environ, heap, call, tmp, ret, respVars>>

\* return _parser (config.py:115)
Load(t) ==
    /\ pc[t] = "load"
    /\ ret' = [ret EXCEPT ![t] = parser]
    /\ pc' = [pc EXCEPT ![t] = "done"]
    /\ UNCHANGED <<cfgVars, tmp, respVars>>

---------------------------------------------------------------------------
(* Python values wrapped by the responses *)

PyNone     == [cls |-> "NoneType", items |-> <<>>, n |-> 0, s |-> ""]
PyInt(i)   == [cls |-> "int",  items |-> <<>>, n |-> i, s |-> ""]
PyStr(x)   == [cls |-> "str",  items |-> <<>>, n |-> 0, s |-> x]
PyList(q)  == [cls |-> "list", items |-> q,    n |-> 0, s |-> ""]
PyDict(f)  == [cls |-> "dict", items |-> f,    n |-> 0, s |-> ""]

Ret(v)       == [exc |-> "", kind |-> "return", msg |-> "", val |-> v]
Exc(e, m)    == [exc |-> e,  kind |-> "raise",  msg |-> m,  val |-> PyNone]

IdDict  == PyDict([k \in {"id"} |-> PyInt(7)])
List123 == PyList(<<PyInt(1), PyInt(2), PyInt(3)>>)

\* payloads handed to GlobusResponse
Payloads == {IdDict, List123, PyInt(5), PyNone}

\* keys used for indexing
Keys == {PyStr("id"), PyStr("x"), PyInt(0), PyInt(5), PyInt(0 - 1)}

\* data[key] as Python evaluates it
Index(data, key) ==
    CASE data.cls = "dict" ->
           IF key.cls = "str" /\ key.s \in DOMAIN data.items
           THEN Ret(data.items[key.s])
           ELSE Exc("KeyError", "key")
      [] data.cls = "list" ->
           IF key.cls # "int"
           THEN Exc("TypeError", "list indices must be integers")
           ELSE LET i == IF key.n < 0 THEN key.n + Len(data.items) ELSE key.n
                IN IF i >= 0 /\ i < Len(data.items)
                   THEN Ret(data.items[i + 1])
                   ELSE Exc("IndexError", "list index out of range")
      [] OTHER ->
           Exc("TypeError", "object has no attribute '__getitem__'")

\* response bodies
Bodies == {"{\"id\": 7}", "[1, 2, 3]", "5", "null", "not json", ""}

\* the transport's json(): the decoded body, or ValueError
Json(tr) ==
    CASE tr.text = "{\"id\": 7}" -> Ret(IdDict)
      [] tr.text = "[1, 2, 3]"   -> Ret(List123)
      [] tr.text = "5"           -> Ret(PyInt(5))
      [] tr.text = "null"        -> Ret(PyNone)
      [] OTHER -> Exc("ValueError", "No JSON object could be decoded")

\* the HTTP library's response objects; a response may lack Content-Type
Transports ==
    [status_code : {200, 404},
     content_type : {"application/json", "text/html", Nil},
     text : Bodies]

NoTransport == [status_code |-> 0, content_type |-> Nil, text |-> ""]
NoWrapper   == [cls |-> "", payload |-> PyNone, http_status |-> 0,
                content_type |-> ""]
NoAccess    == [op |-> "", key |-> PyNone, out |-> Ret(PyNone), decodes |-> 0]

NormalizedMsg == "This type of GlobusResponse object does not support indexing."

HTTPData_NoCatch(tr) == [out |-> Json(tr), decodes |-> 1]

\* GlobusHTTPResponse.data (response.py:75-86)
HTTPData(tr) ==
    LET j == Json(tr) IN
    [out     |-> IF j.exc = "ValueError" THEN Ret(PyNone) ELSE j,
     decodes |-> 1]

\* the data property of either class (response.py:44-50, 75-86)
Data(w, tr) ==
    IF w.cls = "GlobusHTTPResponse" THEN HTTPData(tr)
    ELSE [out |-> Ret(w.payload), decodes |-> 0]

GetItem_CatchAll(w, tr, key) ==
    LET d == Data(w, tr) IN
    IF d.out.kind = "raise" THEN d
    ELSE LET r == Index(d.out.val, key) IN
         [out |-> IF r.kind = "raise"
                  THEN Exc("TypeError", NormalizedMsg) ELSE r,
          decodes |-> d.decodes]

\* GlobusResponse.__getitem__ (response.py:28-42)
GetItem(w, tr, key) ==
    LET d == Data(w, tr) IN
    IF d.out.kind = "raise" THEN d
    ELSE LET r == Index(d.out.val, key) IN
         [out |-> IF r.exc = "TypeError"
                  THEN Exc("TypeError", NormalizedMsg) ELSE r,
          decodes |-> d.decodes]

\* GlobusResponse(data) (response.py:14-20)
NewResponse ==
    \E data \in Payloads :
        /\ wrapper' = [cls |-> "GlobusResponse", payload |-> data,
                       http_status |-> 0, content_type |-> ""]
        /\ access' = [op |-> "__init__", key |-> PyNone,
                      out |-> Ret(PyNone), decodes |-> 0]
        /\ UNCHANGED <<cfgVars, thrVars, transport>>

\* GlobusHTTPResponse(http_response) (response.py:63-73); headers[...]
\* raises KeyError when the header is missing
NewHTTPResponse ==
    /\ IF transport.content_type = Nil
       THEN /\ access' = [op |-> "__init__", key |-> PyNone,
                          out |-> Exc("KeyError", "Content-Type"),
                          decodes |-> 0]
            /\ UNCHANGED wrapper
       ELSE /\ wrapper' = [cls |-> "GlobusHTTPResponse", payload |-> PyNone,
                           http_status |-> transport.status_code,
                           content_type |-> transport.content_type]
            /\ access' = [op |-> "__init__", key |-> PyNone,
                          out |-> Ret(PyNone), decodes |-> 0]
    /\ UNCHANGED <<cfgVars, thrVars, transport>>

\* the owner of the transport object changes it; the wrapper holds a
\* reference to it, not a copy (response.py:66)
TransportChange ==
    /\ transport' \in Transports \ {transport}
    /\ UNCHANGED <<cfgVars, thrVars, wrapper, access>>

\* wrapper.data
ReadData ==
    /\ wrapper.cls # ""
    /\ LET d == Data(wrapper, transport) IN
       access' = [op |-> "data", key |-> PyNone, out |-> d.out,
                  decodes |-> d.decodes]
    /\ UNCHANGED <<cfgVars, thrVars, transport, wrapper>>

\* wrapper[key]
ReadItem ==
    /\ wrapper.cls # ""
    /\ \E key \in Keys :
        LET d == GetItem(wrapper, transport, key) IN
        access' = [op |-> "__getitem__", key |-> key, out |-> d.out,
                   decodes |-> d.decodes]
    /\ UNCHANGED <<cfgVars, thrVars, transport, wrapper>>

\* GlobusHTTPResponse.text (response.py:88-93)
Text(tr) == Ret(PyStr(tr.text))

\* wrapper.text
ReadText ==
    /\ wrapper.cls = "GlobusHTTPResponse"
    /\ access' = [op |-> "text", key |-> PyNone, out |-> Text(transport),
                  decodes |-> 0]
    /\ UNCHANGED <<cfgVars, thrVars, transport, wrapper>>

\* wrapper.http_status, wrapper.content_type (response.py:72-73)
ReadStatus ==
    /\ wrapper.cls = "GlobusHTTPResponse"
    /\ \/ access' = [op |-> "http_status", key |-> PyNone,
                     out |-> Ret(PyInt(wrapper.http_status)), decodes |-> 0]
       \/ access' = [op |-> "content_type", key |-> PyNone,
                     out |-> Ret(PyStr(wrapper.content_type)), decodes |-> 0]
    /\ UNCHANGED <<cfgVars, thrVars, transport, wrapper>>

---------------------------------------------------------------------------
(* Specifications *)

ConfigIdle ==
    /\ heap = <<>>
    /\ parser = 0
    /\ call = NoCall

ResponseIdle ==
    /\ transport = NoTransport
    /\ wrapper = NoWrapper
    /\ access = NoAccess

Init ==
    /\ fs \in FileSystems
    /\ environ \in Environs
    /\ ConfigIdle
    /\ ThreadsIdle
    /\ ResponseIdle

Next ==
    \/ get_service_url
    \/ get_auth_token
    \/ ConfigGet
    \/ Return

Spec == Init /\ [][Next]_vars

\* the sources a few threads race on: only the user's file may exist, and
\* it holds at most one line
ThreadFileSystems ==
    { f \in FileSystems :
        /\ ~f[1].readable
        /\ ~f[2].readable
        /\ Len(f[3].lines) <= 1 }

InitThreads ==
    /\ fs \in ThreadFileSystems
    /\ environ = <<>>
    /\ ConfigIdle
    /\ ThreadsIdle
    /\ ResponseIdle

NextThreads ==
    \E t \in Threads :
        \/ Enter(t)
        \/ Test(t)
        \/ Construct(t)
        \/ Store(t)
        \/ Load(t)

SpecThreads == InitThreads /\ [][NextThreads]_vars

InitResponse ==
    /\ fs = [i \in Sources |-> NoFile]
    /\ environ = <<>>
    /\ ConfigIdle
    /\ ThreadsIdle
    /\ transport \in Transports
    /\ wrapper = NoWrapper
    /\ access = NoAccess

NextResponse ==
    \/ NewResponse
    \/ NewHTTPResponse
    \/ TransportChange
    \/ ReadData
    \/ ReadItem
    \/ ReadText
    \/ ReadStatus

SpecResponse == InitResponse /\ [][NextResponse]_vars

---------------------------------------------------------------------------
(* What the sources say, read off the files without the parser *)

AllSections == {"general", "environment prod"}

\* the section a line belongs to: the last header above it, and general
\* when no header stands above it
SectionOfLine(lines, j) ==
    LET hs == { h \in 1..(j - 1) : lines[h].k = "header" } IN
    IF hs = {} THEN "general"
    ELSE lines[CHOOSE h \in hs : \A g \in hs : g <= h].name

\* option keys are case-insensitive
KeyOf(option) ==
    IF option \in {"auth_token", "Auth_Token"} THEN "auth_token" ELSE option

Declarations(file, sect, key) ==
    { j \in 1..Len(file.lines) :
        /\ file.lines[j].k = "option"
        /\ KeyOf(file.lines[j].name) = key
        /\ SectionOfLine(file.lines, j) = sect }

Defines(i, sect, key) ==
    fs[i].readable /\ Declarations(fs[i], sect, key) # {}

Defining(sect, key) == { i \in Sources : Defines(i, sect, key) }

Last(S) == CHOOSE x \in S : \A y \in S : y <= x

\* the value source i gives the key: its last declaration
SourceValue(i, sect, key) ==
    fs[i].lines[Last(Declarations(fs[i], sect, key))].value

\* the value of the highest-priority source that defines the key
MergedValue(sect, key) == SourceValue(Last(Defining(sect, key)), sect, key)

Malformed(i) ==
    fs[i].readable /\ \E j \in 1..Len(fs[i].lines) : fs[i].lines[j].k = "bad"

\* every source that can be opened parses
Loadable == \A i \in Sources : ~Malformed(i)

\* the variable GLOBUS_SDK_<OPTION> of the call's option is set
EnvVarOf(option) ==
    IF KeyOf(option) = "auth_token" THEN "GLOBUS_SDK_AUTH_TOKEN"
    ELSE "GLOBUS_SDK_NEXUS_SERVICE"

EnvHit == call.check_env /\ EnvVarOf(call.option) \in DOMAIN environ

\* the scope the call's arguments select
ClaimedScope ==
    IF call.environment # Nil THEN
        (IF call.environment = "prod" THEN "environment prod" ELSE "")
    ELSE IF call.section # Nil THEN call.section
    ELSE "general"

\* a call of get has completed on a store that could be built
Called == call.op # "" /\ Loadable

---------------------------------------------------------------------------
(* Claims about the configuration store *)

\* C1: get on a key configured in no source, with no matching GLOBUS_SDK_
\* variable in effect, returns None and never raises, whatever the section,
\* environment, failover_to_general and check_env arguments are.
C1_AbsentKeyIsNone ==
    ( /\ Called
      /\ ~EnvHit
      /\ \A sect \in AllSections : Defining(sect, KeyOf(call.option)) = {} )
    => call.out = None

\* C2: get_auth_token(env) is GLOBUS_SDK_AUTH_TOKEN if set, else auth_token
\* of 'environment <env>' if configured, else auth_token of 'general'.
C2_AuthTokenOrder ==
    (Called /\ call.op = "get_auth_token") =>
        LET sect == ClaimedScope IN
        IF "GLOBUS_SDK_AUTH_TOKEN" \in DOMAIN environ
        THEN call.out = Str(environ["GLOBUS_SDK_AUTH_TOKEN"])
        ELSE IF Defining(sect, "auth_token") # {}
        THEN call.out = Str(MergedValue(sect, "auth_token"))
        ELSE Defining("general", "auth_token") # {}
             => call.out = Str(MergedValue("general", "auth_token"))

\* C4: a (section, key) defined by one or more loaded sources is returned
\* with the value of the last source in the list that defines it, and
\* within that source with the value declared last.
C4_LaterSourceWins ==
    ( /\ Called
      /\ ~EnvHit
      /\ Defining(ClaimedScope, KeyOf(call.option)) # {} )
    => call.out = Str(MergedValue(ClaimedScope, KeyOf(call.option)))

\* C4 witness: two sources give the key different values, the later one
\* declares it twice, and get returned the later source's value
C4_Witness ==
    /\ Called
    /\ call.op = "get"
    /\ ~EnvHit
    /\ \E i, j \in Defining(ClaimedScope, "auth_token") :
        /\ i < j
        /\ j = Last(Defining(ClaimedScope, "auth_token"))
        /\ Cardinality(Declarations(fs[j], ClaimedScope, "auth_token")) = 2
        /\ SourceValue(i, ClaimedScope, "auth_token")
             # SourceValue(j, ClaimedScope, "auth_token")
        /\ call.out = Str(SourceValue(j, ClaimedScope, "auth_token"))

\* C5: under check_env with GLOBUS_SDK_<OPTION> set, get returns the
\* variable's value whatever the section, environment, failover and store;
\* the variable is read only under check_env, so without check_env the
\* result is the same for every value of the variable.
C5_EnvOverride ==
    Called =>
        /\ EnvHit => call.out = Str(environ[EnvVarOf(call.option)])
        /\ \A k \in 1..Len(call.frames) :
              call.frames[k].env_read => call.frames[k].check_env
        /\ ~call.check_env =>
              \A e \in Environs :
                 Get(heap[parser].sections, e, call.option, call.section,
                     call.environment, call.failover, FALSE).out = call.out

\* C5 witness: the variable won although the store has no such section,
\* and the files give the key another value elsewhere
C5_Witness ==
    /\ Called
    /\ EnvHit
    /\ call.environment = "prod"
    /\ "environment prod" \notin DOMAIN heap[parser].sections
    /\ Defining("general", "auth_token") # {}
    /\ call.out = Str("E")

\* C6: the scope is 'environment <env>' when environment is given, else
\* the explicit section, else 'general'; an environment-scoped lookup
\* returns its own section's value when the section has the key, the
\* 'general' value exactly when failover_to_general is set and the
\* environment section lacks the key, and reports a key defined only in
\* 'general' absent when failover_to_general is not set.
C6_ScopeResolution ==
    (Called /\ ~EnvHit) =>
        LET key == KeyOf(call.option) IN
        /\ call.frames # <<>>
        /\ call.frames[1].section = ClaimedScope
        /\ (call.environment # Nil /\ Defining(ClaimedScope, key) # {})
           => call.out = Str(MergedValue(ClaimedScope, key))
        /\ ( /\ call.environment # Nil
             /\ Defining(ClaimedScope, key) = {}
             /\ Defining("general", key) # {} )
           => IF call.failover
              THEN call.out = Str(MergedValue("general", key))
              ELSE call.out = None

\* C9: a source that cannot be opened is skipped and the others are still
\* merged (no source at all gives an empty store); a source that opens but
\* does not parse aborts construction with the parse error and no store
\* is produced.
C9_LoadErrorPolicy ==
    /\ (\E i \in Sources : Malformed(i)) =>
          /\ parser = 0
          /\ heap = <<>>
          /\ call.op # "" => call.out = Raise("ParsingError")
    /\ (call.op # "" /\ Loadable) =>
          /\ call.out \notin {Raise("ParsingError"), Raise("IOError")}
          /\ parser = 1
          /\ Len(heap) = 1
          /\ \A sect \in AllSections :
                \A key \in {"auth_token", "nexus_service"} :
                   ( /\ sect \in DOMAIN heap[1].sections
                     /\ key \in DOMAIN heap[1].sections[sect] )
                   <=> Defining(sect, key) # {}
          /\ (\A i \in Sources : ~fs[i].readable) => heap[1].sections = <<>>

\* C9 witness: the first source is missing, a later one was merged
C9_Witness ==
    /\ call.op # ""
    /\ ~fs[1].readable
    /\ ~fs[2].readable
    /\ Defining("environment prod", "auth_token") = {3}
    /\ parser = 1
    /\ "auth_token" \in DOMAIN heap[1].sections["environment prod"]

\* C10: get makes at most one failover hop: a scoped lookup that fails
\* under failover_to_general is retried exactly once, against 'general'
\* with failover and check_env off, so at most two activations of get and
\* at most one look at the environment; a lookup scoped to 'general' under
\* failover_to_general that fails ends by returning None.
C10_OneFailoverHop ==
    Called =>
        LET failed == ~EnvHit /\ Defining(ClaimedScope, KeyOf(call.option)) = {}
        IN /\ Len(call.frames) \in {1, 2}
           /\ Cardinality({ k \in 1..Len(call.frames) :
                              call.frames[k].env_read }) <= 1
           /\ IF failed /\ call.failover
              THEN /\ Len(call.frames) = 2
                   /\ call.frames[2] = [section   |-> "general",
                                        failover  |-> FALSE,
                                        check_env |-> FALSE,
                                        env_read  |-> FALSE]
              ELSE Len(call.frames) = 1
           /\ (failed /\ call.failover /\ ClaimedScope = "general")
                 => call.out = None

---------------------------------------------------------------------------
(* Claims about the singleton accessor *)

\* C3: however the calls of _get_parser interleave, at most one
\* GlobusConfigParser is constructed and every call returns the same
\* instance.
C3_SingleConstruction ==
    /\ Len(heap) <= 1
    /\ \A t, u \in Threads :
          (ret[t] # 0 /\ ret[u] # 0) => ret[t] = ret[u]

---------------------------------------------------------------------------
(* Claims about the response wrappers *)

HTTP == "GlobusHTTPResponse"

\* the data a wrapper stands for: its payload, or the body decoded as JSON
\* and None when the body is not JSON
ClaimedData ==
    IF wrapper.cls = HTTP
    THEN (IF Json(transport).kind = "return" THEN Json(transport).val
          ELSE PyNone)
    ELSE wrapper.payload

\* a step that is an access of the wrapper: neither the wrapper nor the
\* transport changes
AccessStep(op) ==
    /\ wrapper' = wrapper
    /\ transport' = transport
    /\ access'.op = op

C8_DataDecodedPerAccess ==
    [][ /\ (AccessStep("data") /\ wrapper.cls = HTTP) =>
              /\ access'.decodes = 1
              /\ access'.out.kind = "return"
              /\ access'.out =
                    (IF Json(transport).kind = "raise" THEN Ret(PyNone)
                     ELSE Json(transport))
        /\ AccessStep("text") => access'.out = Ret(PyStr(transport.text))
        /\ (wrapper'.cls = HTTP /\ wrapper' # wrapper) =>
              /\ wrapper'.http_status = transport.status_code
              /\ wrapper'.content_type = transport.content_type
        /\ transport' # transport => wrapper' = wrapper
        /\ AccessStep("http_status") =>
              access'.out = Ret(PyInt(wrapper.http_status))
        /\ AccessStep("content_type") =>
              access'.out = Ret(PyStr(wrapper.content_type)) ]_vars

\* C8 witness: data is None for a body that does not decode, read after
\* the transport changed under the wrapper
C8_Witness ==
    /\ wrapper.cls = HTTP
    /\ access.op = "data"
    /\ access.out = Ret(PyNone)
    /\ access.decodes = 1
    /\ transport.text = "not json"
    /\ transport.status_code # wrapper.http_status

=============================================================================
